---- MODULE Spec2Model ----
(***************************************************************************)
(* RxJStore: the keyed cache RxStore (RxStore.ts) and the subscriber       *)
(* counter SubscriberMonitor (SubscriberMonitor.ts).                       *)
(*                                                                         *)
(* One entry of RxStore.store is a record {observable, updateValueRS,      *)
(* lastFetchFailed, params, clearFromStorageTimer}.  The observable is the *)
(* pipeline  updateValueRS -> switchMap -> startWith/pairwise/map ->       *)
(* shareReplay(1), wrapped in a SubscriberMonitor when a delete time is    *)
(* configured.  A stream instance is identified by (key, generation): the  *)
(* n-th entry built for a key has generation n.  Spec describes the runs   *)
(* whose consumers drop an instance when its entry is deleted, SpecStale   *)
(* the runs whose consumers keep and use it afterwards.                    *)
(***************************************************************************)
EXTENDS Integers, Sequences, FiniteSets, TLC

\* ---------------------------------------------------------------- bounds
MaxGen == 2        \* entries built per key
MaxSubs == 2       \* live subscribers of one key, all its instances together
MaxTimers == 2     \* pending setTimeout callbacks per key
MaxCounter == 2    \* SubscriberMonitor.counter
MaxBatch == 2      \* batch events whose responsesOb is subscribed
MaxBuffer == 3     \* requests bufferTime holds

\* ---------------------------------------------------------------- values
Params == {"p1", "p2"}
Keys == {"k1", "k2"}
Undef == "undefined"
\* "zero" stands for a falsy value of T (0, "", false); v1, v2 are truthy
Vals == {"zero", "v1", "v2"}
\* TError defaults to Error: parsed errors are objects, hence truthy
Errs == {"e1"}
\* values of options.extra: a falsy one and a truthy one
Extras == {"zero", "x1"}
Gens == 1..MaxGen

Truthy(x) == x \notin {Undef, "zero"}

\* shareReplay's buffer before the first emission
NoResult == [loading |-> FALSE, value |-> "none", error |-> Undef]
LoadingRaw == [loading |-> TRUE, value |-> Undef, error |-> Undef]
ValueRaw(v) == [loading |-> FALSE, value |-> v, error |-> Undef]
ErrorRaw_loading(e) == [loading |-> TRUE, value |-> Undef, error |-> e]
ErrorRaw(e) == [loading |-> FALSE, value |-> Undef, error |-> e]
LocalResult(v) == [loading |-> FALSE, value |-> v, error |-> Undef]
\* updateValueRS.next(undefined): the request to fetch again
InvalidateRS == [loading |-> FALSE, value |-> "invalidate", error |-> Undef]

\* what a call of the fetcher does: it throws, or it returns a stream that
\* does nothing yet (async), or emits a value and completes, or fails, as
\* soon as it is subscribed
Async == [kind |-> "async", v |-> Undef]
Outcomes ==
  {Async}
    \cup {[kind |-> "value", v |-> v] : v \in Vals}
    \cup {[kind |-> "error", v |-> e] : e \in Errs}
    \cup {[kind |-> "throw", v |-> e] : e \in Errs}

getKey(p) == IF p = "p1" THEN "k1" ELSE "k2"
paramsOf(k) == IF k = "k1" THEN "p1" ELSE "p2"

\* map(([previousValue, newValue]) => ...) of the pipeline (lines 193-201);
\* previousValue_value is the operand (previousValue && previousValue.value)
MergePair(previousValue_value, newValue) ==
  [loading |-> newValue.loading,
   value |-> IF Truthy(newValue.value) THEN newValue.value
             ELSE previousValue_value,
   error |-> IF Truthy(newValue.error) THEN newValue.error ELSE Undef]

\* ---------------------------------------------------------------- state
VARIABLES
  ttl,       \* deleteFromCacheTimeMS is set (truthy)
  vals,      \* the values the fetcher and the callers of this run use
  sync,      \* the fetcher of this run may answer synchronously
  keep,      \* the consumers of this run keep the stream instances they
             \* were handed after the entry was deleted from the store
  store,     \* key -> generation of the entry stored under the key, 0: none
  order,     \* the keys of the store, in insertion order (Object.keys)
  rec,       \* key -> generation -> the entry record's mutable fields
  inst,      \* key -> generation -> state of the stream instance
  gen,       \* key -> number of entries built so far
  timers,    \* key -> number of pending setTimeout callbacks
  held,      \* key -> generations of the instances handed to consumers
  fetched,   \* key -> invocations of the fetcher in the last step
  emitted,   \* results the pipelines emitted in the last step, in order
  combine,   \* the consumers of this run subscribe to the streams that
             \* getStores returns
  many,      \* the stream getStores returned last and its subscription
  manyOut,   \* results that stream emitted in the last step, in order
  batching,  \* the store of this run is an RxBatchingStore
  batch,     \* the requests buffered by bufferTime, the per-key fetches
             \* subscribed to `requests`, and the batch events in use
  calls,     \* the arguments batchFetchingFunction was called with in the
             \* last step, in order
  source,    \* the observable a SubscriberMonitor of its own wraps in this
             \* run: "none", "live", "replay" (live, replays its latest
             \* value on subscribe) or "completed"
  mon,       \* that SubscriberMonitor, its source and its subscribers
  monLog     \* the callbacks that monitor invoked in the last step, in order

vars == <<ttl, vals, sync, keep, store, order, rec, inst, gen, timers, held,
          fetched, emitted, combine, many, manyOut, batching, batch, calls,
          source, mon, monLog>>

FreshRec == [lastFetchFailed |-> FALSE, timerLive |-> FALSE]

FreshInst ==
  [counter |-> 0,          \* SubscriberMonitor.counter
   live |-> 0,             \* subscribers attached to shareReplay's subject
   started |-> FALSE,      \* shareReplay has subscribed to its source
   rs |-> InvalidateRS,    \* buffer of updateValueRS (line 169)
   prev |-> Undef,         \* pairwise(): previousValue && previousValue.value
   last |-> NoResult,      \* buffer of shareReplay(1)
   inflight |-> FALSE,     \* switchMap's inner fetch stream is subscribed
   flights |-> 0,          \* streams returned by the fetcher (line 152)
                           \* that the pipeline is subscribed to
   cap |-> 0,              \* generation of the record `store` of line 146
                           \* held by the fetch in flight, 0: undefined
   since |-> 0,            \* fetcher calls since the last force / expire:
                           \* 0, 1, or 2 for more than one
   errored |-> FALSE,      \* the stream has ended with an error
   extra |-> Undef,        \* the parameter `extra` of init (line 138) that
                           \* networkFetchOb closes over
   arg |-> Undef]          \* the extra the fetcher was last called with
                           \* (line 152)

\* every stream is wrapped in a SubscriberMonitor
Monitored_always == TRUE

\* the stream of an entry is wrapped in a SubscriberMonitor iff
\* deleteFromCacheTimeMS is truthy (lines 208-222)
Monitored == ttl

\* the whole state as one value, so that handlers compose
World ==
  [store |-> store, order |-> order, rec |-> rec, inst |-> inst, gen |-> gen,
   timers |-> timers, held |-> held, fetched |-> [k \in Keys |-> 0],
   emitted |-> <<>>, many |-> many, manyOut |-> <<>>,
   batch |-> batch, calls |-> <<>>]

\* ------------------------------------------- the stream of getStores
\* of({ loading: false, value: [], error: [] }) (line 75)
EmptyMany == [loading |-> FALSE, value |-> <<>>, error |-> <<>>]

\* no stream of getStores is in use.  list: the streams combineLatest was
\* given; att: how many of them it has subscribed to; slot: the latest
\* result of each; seen, out: the result distinctUntilKeyChanged passed last
NoMany ==
  [has |-> FALSE, list |-> <<>>, on |-> FALSE, att |-> 0, slot |-> <<>>,
   seen |-> FALSE, out |-> EmptyMany]

\* the projection of lines 80-87, looking at the first stream only
Combined_first(storeOutput) ==
  [loading |-> storeOutput[1].loading,
   value |-> SelectSeq([n \in 1..Len(storeOutput) |-> storeOutput[n].value],
                       Truthy),
   error |-> SelectSeq([n \in 1..Len(storeOutput) |-> storeOutput[n].error],
                       Truthy)]

\* the projection of lines 80-87
Combined(storeOutput) ==
  [loading |-> \E n \in 1..Len(storeOutput) : storeOutput[n].loading,
   value |-> SelectSeq([n \in 1..Len(storeOutput) |-> storeOutput[n].value],
                       Truthy),
   error |-> SelectSeq([n \in 1..Len(storeOutput) |-> storeOutput[n].error],
                       Truthy)]

\* the latest result of every stream of the list, at this moment
Latest(w) ==
  [n \in 1..Len(w.many.list) |->
     w.inst[w.many.list[n].key][w.many.list[n].gen].last]

\* distinctUntilKeyChanged("loading") (line 88) lets c pass
Distinct(m, c) == ~m.seen \/ c.loading # m.out.loading

\* the n-th stream of combineLatest emits res (lines 77-89)
FeedSlot(w, n, res) ==
  LET m1 == [w.many EXCEPT !.slot[n] = res]
      c == Combined(m1.slot)
  IN IF /\ \A j \in 1..Len(m1.slot) : m1.slot[j] # NoResult
        /\ Distinct(m1, c)
     THEN [w EXCEPT !.many = [m1 EXCEPT !.seen = TRUE, !.out = c],
                    !.manyOut = Append(@, [res |-> c, latest |-> Latest(w)])]
     ELSE [w EXCEPT !.many = m1]

\* the stream (k, g) emits res to the subscriptions combineLatest holds on
\* it, in the order they were made
RECURSIVE FeedFrom(_, _, _, _, _)
FeedFrom(w, k, g, res, n) ==
  IF n > w.many.att
  THEN w
  ELSE FeedFrom(IF w.many.list[n] = [key |-> k, gen |-> g]
                THEN FeedSlot(w, n, res)
                ELSE w,
                k, g, res, n + 1)

\* ------------------------------------------------------- the pipeline
\* one value leaves switchMap: pairwise/map merge it, shareReplay keeps it
EmitRaw(w, k, g, raw) ==
  LET i == w.inst[k][g]
      m == MergePair(i.prev, raw)
      w1 == [w EXCEPT !.inst[k][g] = [i EXCEPT !.prev = raw.value, !.last = m],
                      !.emitted = Append(@, [key |-> k, gen |-> g, res |-> m])]
  IN FeedFrom(w1, k, g, m, 1)

\* ------------------------------------------------- the batching store
Batches == 1..MaxBatch

\* what a result list of batchFetchingFunction holds for one request:
\* nothing, a response, or an error
NoAnswer == [kind |-> "none", v |-> Undef]
Answers ==
  {NoAnswer} \cup {[kind |-> "value", v |-> v] : v \in {"v1"}}
             \cup {[kind |-> "error", v |-> e] : e \in Errs}

\* keyBy(results, hash) (line 84) of the result lists of a
\* batchFetchingFunction that reports errors for p1 only
Dicts == {d \in [Keys -> Answers] : d[getKey("p2")].kind # "error"}

\* a batch event nobody is subscribed to.  att: the per-key fetches
\* subscribed to its responsesOb, in order
NoEvent == [att |-> <<>>]

\* buffer: what bufferTime holds; waiters: the per-key fetches subscribed
\* to `requests`, in order
NoBatch ==
  [buffer |-> <<>>, waiters |-> <<>>, events |-> [b \in Batches |-> NoEvent]]

Range(s) == {s[n] : n \in 1..Len(s)}

Without(s, x) == SelectSeq(s, LAMBDA y : y # x)

\* extra ? { request, extra } : { request } (line 54)
Request(request, extra) ==
  IF Truthy(extra)
  THEN [request |-> request, extra |-> extra]
  ELSE [request |-> request]

\* reqs.map((req) => nodeObjectSorter(req.request)) (line 88); the keys of
\* the model are the hashes of the params
hashes(reqs) == [n \in 1..Len(reqs) |-> reqs[n].request]

\* fetchBatch that passes the buffered requests on as they are
uniqBy_all(reqs) == reqs

\* uniqBy(reqs, hash) (line 82): the first occurrence of each is kept
RECURSIVE uniqBy(_)
uniqBy(reqs) ==
  IF reqs = <<>>
  THEN <<>>
  ELSE LET r == uniqBy(SubSeq(reqs, 1, Len(reqs) - 1))
           x == reqs[Len(reqs)]
       IN IF x.request \in Range(hashes(r)) THEN r ELSE Append(r, x)

\* `requests` without share(): bufferTime keeps its buffer when the last
\* per-key fetch leaves
unsubscribeFetch_keep(w, k, g) ==
  LET x == [key |-> k, gen |-> g]
  IN [w EXCEPT !.batch.waiters = Without(@, x),
               !.batch.events =
                  [b \in Batches |-> [@[b] EXCEPT !.att = Without(@, x)]]]

\* the stream fetch returned is unsubscribed: it leaves `requests` (share
\* unsubscribes bufferTime with its last subscriber, and the buffer is
\* gone) or the responsesOb it was switched to
unsubscribeFetch(w, k, g) ==
  LET x == [key |-> k, gen |-> g]
      ws == Without(w.batch.waiters, x)
  IN [w EXCEPT !.batch.waiters = ws,
               !.batch.buffer = IF ws = <<>> THEN <<>> ELSE @,
               !.batch.events =
                  [b \in Batches |-> [@[b] EXCEPT !.att = Without(@, x)]]]

\* the stream fetch returned is subscribed (lines 51-55): it subscribes to
\* `requests`, then emits its request
fetch(w, k, g) ==
  [w EXCEPT !.batch.waiters = Append(@, [key |-> k, gen |-> g]),
            !.batch.buffer = Append(@, Request(k, w.inst[k][g].arg))]

\* clearTimeout(this.store[key].clearFromStorageTimer), entry present
ClearTimer(w, k) ==
  LET g == w.store[k]
  IN IF w.rec[k][g].timerLive
     THEN [w EXCEPT !.rec[k][g].timerLive = FALSE, !.timers[k] = @ - 1]
     ELSE w

\* onSubscribe of the monitor (line 212); with the entry gone it throws,
\* which the caller sees as w unchanged
OnSubscribe(w, k) == IF w.store[k] = 0 THEN w ELSE ClearTimer(w, k)

\* onUnsubscribe(0) of the monitor (lines 214-219).  With the entry gone
\* the assignment target is undefined: a TypeError, raised before or after
\* setTimeout has run (tm), depending on the engine's evaluation order.
OnUnsubscribeZero(w, k, tm) ==
  IF w.store[k] = 0
  THEN [w EXCEPT !.timers[k] = IF tm THEN @ + 1 ELSE @]
  ELSE [w EXCEPT !.rec[k][w.store[k]].timerLive = TRUE,
                 !.timers[k] = @ + 1]

\* an error reaches shareReplay's subject: every subscriber is closed and
\* runs its teardown, the source subscription is gone, and the next
\* subscriber makes shareReplay subscribe to its source again
StreamError(w, k, g, tm) ==
  LET i == w.inst[k][g]
      c == IF Monitored THEN i.counter - i.live ELSE i.counter
      w1 == [unsubscribeFetch(w, k, g) EXCEPT !.inst[k][g] =
                        [i EXCEPT !.started = FALSE, !.prev = Undef,
                                  !.last = NoResult, !.inflight = FALSE,
                                  !.flights = IF i.inflight THEN @ - 1 ELSE @,
                                  !.cap = 0, !.live = 0, !.counter = c,
                                  !.errored = TRUE]]
  IN IF Monitored /\ i.live > 0 /\ c = 0
     THEN OnUnsubscribeZero(w1, k, tm)
     ELSE w1

\* catchError of the pipeline (lines 156-160): with `store` undefined the
\* assignment of line 158 throws and the stream errors
FailFetch(w, k, g, e, tm) ==
  LET i == w.inst[k][g]
  IN IF i.cap = 0
     THEN StreamError(w, k, g, tm)
     ELSE EmitRaw([unsubscribeFetch(w, k, g)
                     EXCEPT !.rec[k][i.cap].lastFetchFailed = TRUE,
                            !.inst[k][g].inflight = FALSE,
                            !.inst[k][g].flights =
                               IF i.inflight THEN @ - 1 ELSE @,
                            !.inst[k][g].cap = 0],
                  k, g, ErrorRaw(e))

\* networkFetchOb is subscribed (lines 144-164).  An exception of
\* this.fetcher(params, extra) (line 152) leaves the subscribe function of
\* line 145 before catchError is attached: Observable delivers it as the
\* error of the stream.
InvokeFetch(w, k, g, oc, tm) ==
  LET w1 == [w EXCEPT !.inst[k][g].cap = w.store[k]]
      w2 == EmitRaw(w1, k, g, LoadingRaw)
      w3 == [w2 EXCEPT !.fetched[k] = @ + 1,
                       !.inst[k][g].since = IF @ = 0 THEN 1 ELSE 2,
                       !.inst[k][g].arg = w.inst[k][g].extra]
  IN CASE oc.kind = "async" ->
            IF batching
            THEN fetch([w3 EXCEPT !.inst[k][g].inflight = TRUE,
                                  !.inst[k][g].flights = @ + 1], k, g)
            ELSE [w3 EXCEPT !.inst[k][g].inflight = TRUE,
                            !.inst[k][g].flights = @ + 1]
       [] oc.kind = "value" ->
            EmitRaw([w3 EXCEPT !.inst[k][g].cap = 0], k, g, ValueRaw(oc.v))
       [] oc.kind = "error" -> FailFetch(w3, k, g, oc.v, tm)
       [] oc.kind = "throw" -> StreamError(w3, k, g, tm)

\* an exhaustMap in the place of switchMap: a value of updateValueRS that
\* arrives during a fetch is dropped
SwitchMap_exhaust(w, k, g, val, oc, tm) ==
  IF w.inst[k][g].inflight
  THEN w
  ELSE IF val # InvalidateRS
  THEN EmitRaw(w, k, g, val)
  ELSE InvokeFetch(w, k, g, oc, tm)

\* a mergeMap in the place of switchMap: the stream of the fetch before
\* stays subscribed
SwitchMap_merge(w, k, g, val, oc, tm) ==
  IF val # InvalidateRS
  THEN EmitRaw(w, k, g, val)
  ELSE InvokeFetch(w, k, g, oc, tm)

\* what switchMap does with a value of updateValueRS (lines 174-180): the
\* stream of the fetch before is unsubscribed first
SwitchMap(w, k, g, val, oc, tm) ==
  LET w1 == [unsubscribeFetch(w, k, g)
               EXCEPT !.inst[k][g].inflight = FALSE,
                      !.inst[k][g].flights =
                         IF w.inst[k][g].inflight THEN @ - 1 ELSE @,
                      !.inst[k][g].cap = 0]
  IN IF val # InvalidateRS
     THEN EmitRaw(w1, k, g, val)
     ELSE InvokeFetch(w1, k, g, oc, tm)

\* updateValueRS.next(val) of a subject whose pipeline runs unsubscribed
NextRS_eager(w, k, g, val, oc, tm) ==
  SwitchMap([w EXCEPT !.inst[k][g].rs = val, !.inst[k][g].started = TRUE],
            k, g, val, oc, tm)

\* updateValueRS.next(val)
NextRS(w, k, g, val, oc, tm) ==
  LET w1 == [w EXCEPT !.inst[k][g].rs = val]
  IN IF w.inst[k][g].started THEN SwitchMap(w1, k, g, val, oc, tm) ELSE w1

\* init without the early return of lines 140-142: every call builds
init_rebuild(w, k) ==
  LET g == w.gen[k] + 1
  IN [w EXCEPT !.store[k] = g, !.order = Append(@, k), !.gen[k] = g,
               !.inst[k][g] = FreshInst, !.rec[k][g] = FreshRec]

\* init that hands out the stream built before the entry was deleted
init_stale(w, k) ==
  IF w.store[k] # 0
  THEN w
  ELSE IF w.gen[k] > 0
  THEN [w EXCEPT !.store[k] = w.gen[k], !.order = Append(@, k)]
  ELSE [w EXCEPT !.store[k] = 1, !.order = Append(@, k), !.gen[k] = 1,
                 !.inst[k][1] = FreshInst, !.rec[k][1] = FreshRec]

\* init(params) (lines 138-231)
init(w, k) ==
  IF w.store[k] # 0
  THEN w
  ELSE LET g == w.gen[k] + 1
       IN [w EXCEPT !.store[k] = g, !.order = Append(@, k), !.gen[k] = g,
                    !.inst[k][g] = FreshInst, !.rec[k][g] = FreshRec]

\* an init that takes the extra of every call
initExtra_last(w, k, extra) ==
  LET w1 == init(w, k)
  IN [w1 EXCEPT !.inst[k][w1.store[k]].extra = extra]

\* init(params, extra) (lines 138-142): the extra is a parameter of the
\* call that builds the entry; a call that finds the entry returns at once
initExtra(w, k, extra) ==
  LET w1 == init(w, k)
  IN IF w.store[k] # 0
     THEN w1
     ELSE [w1 EXCEPT !.inst[k][w1.store[k]].extra = extra]

\* expireKey that leaves updateValueRS alone
expireKey_skip(w, k, oc, tm) == w

\* expireKey(key) (lines 130-132)
expireKey(w, k, oc, tm) ==
  LET g == w.store[k]
  IN NextRS([w EXCEPT !.inst[k][g].since = 0], k, g, InvalidateRS, oc, tm)

\* _getStore whose test of line 123 always succeeds
getStoreImpl_inject(w, p, force, oc, tm) ==
  LET k == getKey(p)
      w1 == init(w, k)
      g == w1.store[k]
      w2 == IF force
            THEN expireKey(w1, k, oc, tm)
            ELSE NextRS(w1, k, g, InvalidateRS, oc, tm)
  IN [w2 EXCEPT !.held[k] = @ \cup {g}]

\* _getStore(params, options) (lines 116-128)
getStoreImpl(w, p, force, oc, tm) ==
  LET k == getKey(p)
      w1 == init(w, k)
      g == w1.store[k]
      w2 == IF force
            THEN expireKey(w1, k, oc, tm)
            ELSE IF w1.rec[k][g].lastFetchFailed
            THEN NextRS(w1, k, g, InvalidateRS, oc, tm)
            ELSE w1
  IN [w2 EXCEPT !.held[k] = @ \cup {g}]

\* _getStore(params, {force, extra}) (lines 116-128)
getStoreExtra(w, p, force, extra, oc, tm) ==
  LET k == getKey(p)
  \* the entry is there: the init of getStoreImpl returns at line 141
  IN getStoreImpl(initExtra(w, k, extra), p, force, oc, tm)

\* subscribe(subscriber) of the stream of an entry: shareReplay's subscribe
\* inside the SubscriberMonitor's (SubscriberMonitor.ts lines 10-14)
subscribeImpl(w, k, g, oc) ==
  LET i == w.inst[k][g]
      w1 == IF i.started
            THEN w
            ELSE SwitchMap([w EXCEPT !.inst[k][g].started = TRUE],
                           k, g, i.rs, oc, FALSE)
      \* the stream failed while shareReplay subscribed to its source
      errored == ~w1.inst[k][g].started
      w2 == IF errored THEN w1 ELSE [w1 EXCEPT !.inst[k][g].live = @ + 1]
      w3 == [w2 EXCEPT !.inst[k][g].counter = @ + 1]
      w4 == OnSubscribe(w3, k)
      \* onSubscribe threw: the subscriber is closed with the error and
      \* the teardown of line 15 is never registered
      w5 == IF errored THEN w4 ELSE [w4 EXCEPT !.inst[k][g].live = @ - 1]
      \* the subscriber was closed by the stream's error before line 15
      \* returned: the teardown runs at once
      w6 == LET w6a == [w4 EXCEPT !.inst[k][g].counter = @ - 1]
            IN IF w6a.inst[k][g].counter = 0
               THEN OnUnsubscribeZero(w6a, k, FALSE)
               ELSE w6a
  IN IF ~Monitored THEN w2
     ELSE IF w.store[k] = 0 THEN w5
     ELSE IF errored THEN w6
     ELSE w4

\* the teardown of a subscription (SubscriberMonitor.ts lines 15-19)
unsubscribeImpl(w, k, g, tm) ==
  LET w1 == [w EXCEPT !.inst[k][g].live = @ - 1]
      w2 == [w1 EXCEPT !.inst[k][g].counter = @ - 1]
  IN IF ~Monitored THEN w1
     ELSE IF w2.inst[k][g].counter = 0
     THEN OnUnsubscribeZero(w2, k, tm)
     ELSE w2

\* a per-key fetch that passes the response on whatever the result holds
responses_noerror(w, k, g, d) ==
  IF d[k].kind = "value"
  THEN EmitRaw(w, k, g, ValueRaw(d[k].v))
  ELSE EmitRaw(w, k, g, ValueRaw(Undef))

\* a per-key fetch that emits nothing for a request without result
responses_stall(w, k, g, d) ==
  CASE d[k].kind = "value" -> EmitRaw(w, k, g, ValueRaw(d[k].v))
    [] d[k].kind = "error" -> FailFetch(w, k, g, d[k].v, FALSE)
    [] d[k].kind = "none" -> w

\* a per-key fetch receives the dictionary d of its batch (lines 66-77)
responses(w, k, g, d) ==
  CASE d[k].kind = "value" -> EmitRaw(w, k, g, ValueRaw(d[k].v))
    [] d[k].kind = "error" -> FailFetch(w, k, g, d[k].v, FALSE)
    [] d[k].kind = "none" -> EmitRaw(w, k, g, ValueRaw(Undef))

\* responsesOb of the event b emits d to the fetches xs that are still
\* subscribed to it, in order
RECURSIVE responsesNext(_, _, _, _)
responsesNext(w, b, d, xs) ==
  IF xs = <<>>
  THEN w
  ELSE LET x == Head(xs)
       IN responsesNext(IF x \in Range(w.batch.events[b].att)
                        THEN responses(w, x.key, x.gen, d)
                        ELSE w,
                        b, d, Tail(xs))

\* responsesOb made with share(): what it emitted is not replayed
RECURSIVE requestsNext_share(_, _, _, _, _)
requestsNext_share(w, b, requestHashes, first, xs) ==
  IF xs = <<>>
  THEN w
  ELSE LET x == Head(xs)
           w1 == [unsubscribeFetch(w, x.key, x.gen)
                    EXCEPT !.batch.events[b].att =
                             Append(w.batch.events[b].att, x)]
       IN requestsNext_share(
            IF x.key \notin requestHashes THEN w
            ELSE IF first.has /\ w.batch.events[b].att = <<>>
            THEN responses(w1, x.key, x.gen, first.d)
            ELSE w1,
            b, requestHashes, first, Tail(xs))

\* filter in the place of first (line 64): a fetch stays subscribed to
\* `requests` and switchMap moves it to every later event holding its hash
RECURSIVE requestsNext_filter(_, _, _, _, _)
requestsNext_filter(w, b, requestHashes, first, xs) ==
  IF xs = <<>>
  THEN w
  ELSE LET x == Head(xs)
           w1 == [w EXCEPT !.batch.events =
                    [c \in Batches |->
                       IF c = b
                       THEN [att |-> Append(w.batch.events[b].att, x)]
                       ELSE [att |-> Without(w.batch.events[c].att, x)]]]
       IN requestsNext_filter(
            IF x.key \notin requestHashes THEN w
            ELSE IF first.has THEN responses(w1, x.key, x.gen, first.d)
            ELSE w1,
            b, requestHashes, first, Tail(xs))

\* the event b reaches the fetches xs subscribed to `requests`: first
\* (line 64) lets it pass to those whose hash it holds, which leave
\* `requests` and subscribe to responsesOb (line 65); shareReplay replays
\* what responsesOb emitted already
RECURSIVE requestsNext(_, _, _, _, _)
requestsNext(w, b, requestHashes, first, xs) ==
  IF xs = <<>>
  THEN w
  ELSE LET x == Head(xs)
           w1 == [unsubscribeFetch(w, x.key, x.gen)
                    EXCEPT !.batch.events[b].att =
                             Append(w.batch.events[b].att, x)]
       IN requestsNext(IF x.key \notin requestHashes THEN w
                       ELSE IF first.has THEN responses(w1, x.key, x.gen, first.d)
                       ELSE w1,
                       b, requestHashes, first, Tail(xs))

\* fetchBatch (lines 81-89) for the buffer bufferTime emits, and the
\* delivery of its event through share (lines 36-40).  first: what the
\* stream batchFetchingFunction returns emits while it is subscribed
fetchBatch(w, b, first) ==
  LET reqs == w.batch.buffer
      w1 == [w EXCEPT !.calls = Append(@, uniqBy(reqs)),
                      !.batch.buffer = <<>>]
  IN requestsNext(w1, b, Range(hashes(reqs)), first, w.batch.waiters)

\* expireAll / expireWhere: expireKey for the listed keys, in order
RECURSIVE expireKeys(_, _, _, _)
expireKeys(w, ks, ocs, tm) ==
  IF ks = <<>>
  THEN w
  ELSE expireKeys(expireKey(w, Head(ks), ocs[Head(ks)], tm), Tail(ks), ocs, tm)

\* getStores maps _getStore over the list (line 78)
RECURSIVE getStoreList(_, _, _, _, _)
getStoreList(w, ps, force, ocs, tm) ==
  IF ps = <<>>
  THEN w
  ELSE getStoreList(getStoreImpl(w, Head(ps), force, ocs[getKey(Head(ps))], tm),
                    Tail(ps), force, ocs, tm)

\* expireWhere whose predicate is not consulted
SelectKeys_all(ks, S) == ks

SelectKeys(ks, S) == SelectSeq(ks, LAMBDA k : k \in S)

\* the stream getStores returns (lines 74-89), kept by the consumer
\* unless they are subscribed to an earlier one
getStores(w, ps, force, ocs, tm) ==
  LET w1 == getStoreList(w, ps, force, ocs, tm)
  IN IF combine /\ ~w1.many.on
     THEN [w1 EXCEPT !.many =
             [NoMany EXCEPT !.has = TRUE,
                !.list = [n \in 1..Len(ps) |->
                            [key |-> getKey(ps[n]),
                             gen |-> w1.store[getKey(ps[n])]]]]]
     ELSE w1

\* combineLatest subscribes to its streams from the n-th on, in order; a
\* stream that already runs replays its latest result
RECURSIVE attachFrom(_, _, _)
attachFrom(w, n, ocs) ==
  IF n > Len(w.many.list)
  THEN w
  ELSE LET k == w.many.list[n].key
           g == w.many.list[n].gen
           i == w.inst[k][g]
           w1 == subscribeImpl([w EXCEPT !.many.att = n], k, g, ocs[k])
       IN attachFrom(IF i.started /\ i.last # NoResult
                     THEN FeedSlot(w1, n, i.last)
                     ELSE w1,
                     n + 1, ocs)

\* subscribing to combineLatest([]), which completes without a result
subscribeMany_bare(w, ocs) ==
  attachFrom([w EXCEPT !.many.on = Len(w.many.list) > 0,
                       !.many.slot = [n \in 1..Len(w.many.list) |-> NoResult]],
             1, ocs)

\* subscribing to the stream getStores returned: the single result of line
\* 75 for an empty list, otherwise combineLatest's subscribe
subscribeMany(w, ocs) ==
  IF w.many.list = <<>>
  THEN [w EXCEPT !.manyOut = <<[res |-> EmptyMany, latest |-> <<>>]>>]
  ELSE attachFrom([w EXCEPT !.many.on = TRUE,
                            !.many.slot = [n \in 1..Len(w.many.list) |->
                                             NoResult]],
                  1, ocs)

\* combineLatest unsubscribes from its streams, the n-th first
RECURSIVE detachFrom(_, _)
detachFrom(w, n) ==
  IF n > w.many.att
  THEN [w EXCEPT !.many = NoMany]
  ELSE detachFrom(unsubscribeImpl(w, w.many.list[n].key, w.many.list[n].gen,
                                  FALSE),
                  n + 1)

\* the subscriptions to the stream (k, g) held by the combined stream
OwnLive(k, g) ==
  Cardinality({n \in 1..many.att : many.list[n] = [key |-> k, gen |-> g]})

RECURSIVE SumLive(_, _)
SumLive(f, n) == IF n = 0 THEN 0 ELSE f[n].live + SumLive(f, n - 1)

\* ------------------------------------- a SubscriberMonitor of its own
\* the subscriptions the callers of the monitor make
Ids == 1..(MaxCounter + 1)

\* st: "idle" (never made), "active" or "closed"; once: the subscriber
\* unsubscribes at its first value (take(1)); got: the value it saw last
FreshSub == [st |-> "idle", once |-> FALSE, got |-> Undef]

\* counter: line 4; done: the source has completed; last: the value the
\* source emitted last; subs: the subscribers; order: the active ones in
\* the order they subscribed
FreshMon ==
  [counter |-> 0, done |-> FALSE, last |-> Undef,
   subs |-> [n \in Ids |-> FreshSub], order |-> <<>>]

\* the teardown of lines 15-19 without the decrement
teardown_nocount(m, n) ==
  [m EXCEPT !.mon.subs[n].st = "closed",
            !.mon.order = Without(@, n),
            !.log = Append(@, [cb |-> "onUnsubscribe", n |-> m.mon.counter])]

\* the teardown of lines 15-19 for the subscription n
teardown(m, n) ==
  [m EXCEPT !.mon.subs[n].st = "closed",
            !.mon.order = Without(@, n),
            !.mon.counter = @ - 1,
            !.log = Append(@, [cb |-> "onUnsubscribe", n |-> m.mon.counter - 1])]

\* a subscribe function whose teardown is dropped when the subscriber is
\* closed already
monSubscribe_open(m, n, once) ==
  [m EXCEPT !.mon.subs[n] = [st |-> "closed", once |-> once, got |-> Undef],
            !.mon.counter = @ + 1,
            !.log = Append(@, [cb |-> "onSubscribe", n |-> m.mon.counter + 1])]

\* the subscribe function of lines 10-20 for a new subscription n.  Line
\* 11 hands the subscriber to the source: a completed source emits and
\* completes at once, a replaying source emits its latest value at once;
\* a subscriber closed by then runs the teardown as soon as it is added
monSubscribe(m, n, once) ==
  LET v == IF source = "completed" THEN "v1"
           ELSE IF source = "replay" THEN m.mon.last
           ELSE Undef
      closed == m.mon.done \/ (once /\ v # Undef)
      m1 == [m EXCEPT !.mon.subs[n] = [st |-> "active", once |-> once,
                                       got |-> v],
                      !.mon.order = Append(@, n),
                      !.mon.counter = @ + 1,
                      !.log = Append(@, [cb |-> "onSubscribe",
                                         n |-> m.mon.counter + 1])]
  IN IF closed THEN teardown(m1, n) ELSE m1

\* the source emits v to the subscribers ns, in order
RECURSIVE monNext(_, _, _)
monNext(m, v, ns) ==
  IF ns = <<>>
  THEN m
  ELSE LET n == Head(ns)
           m1 == [m EXCEPT !.mon.subs[n].got = v]
       IN monNext(IF m.mon.subs[n].once THEN teardown(m1, n) ELSE m1,
                  v, Tail(ns))

\* the source completes: the subscribers ns are closed, in order
RECURSIVE monComplete(_, _)
monComplete(m, ns) ==
  IF ns = <<>>
  THEN m
  ELSE monComplete(teardown(m, Head(ns)), Tail(ns))

\* a step of the monitor; the store is not involved
CommitMon(m) ==
  /\ m.mon.counter <= MaxCounter
  /\ mon' = m.mon
  /\ monLog' = m.log
  /\ UNCHANGED <<ttl, vals, sync, keep, store, order, rec, inst, gen, timers,
                 held, fetched, emitted, combine, many, manyOut, batching,
                 batch, calls, source>>

\* ---------------------------------------------------------------- steps
Commit(w) ==
  /\ \A k \in Keys : w.timers[k] <= MaxTimers
  /\ \A k \in Keys : SumLive(w.inst[k], MaxGen) <= MaxSubs
  /\ \A k \in Keys : \A g \in Gens : w.inst[k][g].counter <= MaxCounter
  /\ Len(w.batch.buffer) <= MaxBuffer
  /\ store' = w.store
  /\ order' = w.order
  /\ rec' = w.rec
  /\ inst' = w.inst
  /\ gen' = w.gen
  /\ timers' = w.timers
  /\ held' = w.held
  /\ fetched' = w.fetched
  /\ emitted' = w.emitted
  /\ many' = w.many
  /\ manyOut' = w.manyOut
  /\ batch' = w.batch
  /\ calls' = w.calls
  /\ UNCHANGED <<ttl, vals, sync, keep, combine, batching, source, mon, monLog>>

CanInit(k) == store[k] # 0 \/ gen[k] < MaxGen

\* whether setTimeout runs before the TypeError of line 216 is raised is
\* the engine's choice; it only arises when the entry is gone
EngineChoice(k) == IF Monitored /\ store[k] = 0 THEN BOOLEAN ELSE {FALSE}

\* the outcomes the fetcher of this run can produce when it is called
RunOutcomes ==
  {oc \in Outcomes :
     \/ oc = Async
     \/ sync /\ (oc.kind = "value" => oc.v \in vals)}

\* the outcomes to choose from in a step that calls the fetcher iff b
OutcomesIf(b) == IF b THEN RunOutcomes ELSE {Async}

\* the entry of k exists and its pipeline runs: an invalidation fetches
Fetches(k) == store[k] # 0 /\ inst[k][store[k]].started

\* the state after construction, whatever the configuration of the run
Built ==
  /\ store = [k \in Keys |-> 0]
  /\ order = <<>>
  /\ rec = [k \in Keys |-> [g \in Gens |-> FreshRec]]
  /\ inst = [k \in Keys |-> [g \in Gens |-> FreshInst]]
  /\ gen = [k \in Keys |-> 0]
  /\ timers = [k \in Keys |-> 0]
  /\ held = [k \in Keys |-> {}]
  /\ fetched = [k \in Keys |-> 0]
  /\ emitted = <<>>
  /\ many = NoMany
  /\ manyOut = <<>>
  /\ batch = NoBatch
  /\ calls = <<>>
  /\ mon = [FreshMon EXCEPT !.done = (source = "completed")]
  /\ monLog = <<>>

\* Runs with or without a delete time, with every value and a fetcher that
\* may answer synchronously; their consumers drop an instance when its
\* entry is deleted.
Init ==
  /\ ttl \in BOOLEAN
  /\ vals = Vals /\ sync = TRUE
  /\ keep = FALSE /\ combine = FALSE /\ batching = FALSE /\ source = "none"
  /\ Built

\* Runs with a delete time whose consumers keep every instance they were
\* handed and use it after its entry was deleted; one value and an
\* asynchronous fetcher.
InitStale ==
  /\ ttl = TRUE /\ vals = {"v1"} /\ sync = FALSE
  /\ keep = TRUE /\ combine = FALSE /\ batching = FALSE /\ source = "none"
  /\ Built

\* Runs of a store without delete time whose callers use two keys; one
\* value and an asynchronous fetcher.
InitPair ==
  /\ ttl = FALSE /\ vals = {"v1"} /\ sync = FALSE
  /\ keep = FALSE /\ combine = FALSE /\ batching = FALSE /\ source = "none"
  /\ Built

\* getStore(params, options) (lines 63-68)
GetStore(p, force, oc) ==
  /\ CanInit(getKey(p))
  /\ oc \in OutcomesIf(Fetches(getKey(p)))
  /\ Commit(getStoreImpl(World, p, force, oc, FALSE))

\* getStore(params, {force, extra}) (lines 63-68)
GetStoreExtra(p, force, x, oc) ==
  /\ CanInit(getKey(p))
  /\ oc \in OutcomesIf(Fetches(getKey(p)))
  /\ Commit(getStoreExtra(World, p, force, x, oc, FALSE))

\* getStores(params, options) (lines 70-90): the entries are built and
\* invalidated when the combined stream is made
GetStores(ps, force, ocs) ==
  /\ \A n \in 1..Len(ps) : CanInit(getKey(ps[n]))
  /\ \A k \in Keys :
       ocs[k] \in OutcomesIf(Fetches(k) /\ \E n \in 1..Len(ps) : getKey(ps[n]) = k)
  /\ Commit(getStores(World, ps, force, ocs, FALSE))

\* updateStoreValue(params, value) (lines 92-99)
UpdateStoreValue(p, v) ==
  /\ CanInit(getKey(p))
  /\ v \in vals
  /\ LET k == getKey(p)
         w1 == init(World, k)
     IN Commit(NextRS(w1, k, w1.store[k], LocalResult(v), Async, FALSE))

\* expireAll() (lines 101-105)
ExpireAll(ocs) ==
  /\ \A k \in Keys : ocs[k] \in OutcomesIf(Fetches(k))
  /\ Commit(expireKeys(World, order, ocs, FALSE))

\* expireWhere(predicate) (lines 107-114); S: the params the predicate accepts
ExpireWhere(S, ocs) ==
  /\ \A k \in Keys : ocs[k] \in OutcomesIf(Fetches(k) /\ paramsOf(k) \in S)
  /\ Commit(expireKeys(World, SelectKeys(order, {getKey(p) : p \in S}),
                       ocs, FALSE))

\* a consumer subscribes to an instance it was handed
\* (SubscriberMonitor.ts lines 10-14 around shareReplay's subscribe)
Subscribe(k, g, oc) ==
  /\ g \in held[k]
  /\ oc \in OutcomesIf(~inst[k][g].started /\ inst[k][g].rs = InvalidateRS)
  /\ Commit(subscribeImpl(World, k, g, oc))

\* a subscriber unsubscribes (SubscriberMonitor.ts lines 15-19)
Unsubscribe(k, g, tm) ==
  /\ inst[k][g].live > OwnLive(k, g)
  /\ tm \in EngineChoice(k)
  /\ Commit(unsubscribeImpl(World, k, g, tm))

\* a consumer subscribes to the stream getStores returned
SubscribeMany(ocs) ==
  /\ many.has /\ ~many.on
  /\ \A k \in Keys :
       ocs[k] \in OutcomesIf(\E n \in 1..Len(many.list) :
                               /\ many.list[n].key = k
                               /\ ~inst[k][many.list[n].gen].started
                               /\ inst[k][many.list[n].gen].rs = InvalidateRS)
  /\ Commit(subscribeMany(World, ocs))

\* the consumer unsubscribes from the stream getStores returned
UnsubscribeMany ==
  /\ many.on
  /\ Commit(detachFrom(World, 1))

\* the stream returned by the fetcher emits a value (lines 153-155)
FetchNext(k, g, v) ==
  /\ ~batching
  /\ inst[k][g].inflight
  /\ v \in vals
  /\ Commit(EmitRaw(World, k, g, ValueRaw(v)))

\* the stream returned by the fetcher completes
FetchComplete(k, g) ==
  /\ ~batching
  /\ inst[k][g].inflight
  /\ Commit([World EXCEPT !.inst[k][g].inflight = FALSE,
                          !.inst[k][g].flights = @ - 1,
                          !.inst[k][g].cap = 0])

\* the stream returned by the fetcher fails (lines 156-160)
FetchError(k, g, e, tm) ==
  /\ ~batching
  /\ inst[k][g].inflight
  /\ tm \in EngineChoice(k)
  /\ Commit(FailFetch(World, k, g, e, tm))

\* a bufferTime that keeps running with nobody subscribed to `requests`
Tick_always(first) ==
  \E b \in Batches :
    /\ batch.events[b].att = <<>>
    /\ \A c \in Batches : c < b => batch.events[c].att # <<>>
    /\ Commit(fetchBatch(World, b, first))

\* the interval of bufferTime elapses (RxBatchingStore.ts lines 36-40)
Tick(first) ==
  /\ batch.waiters # <<>>
  /\ \E b \in Batches :
       /\ batch.events[b].att = <<>>
       /\ \A c \in Batches : c < b => batch.events[c].att # <<>>
       /\ Commit(fetchBatch(World, b, first))

\* the stream batchFetchingFunction returned for the event b emits a
\* result list
BatchNext(b, d) ==
  /\ batch.events[b].att # <<>>
  /\ Commit(responsesNext(World, b, d, batch.events[b].att))

\* the stream batchFetchingFunction returned for the event b completes:
\* so do the per-key fetches
RECURSIVE responsesComplete(_, _)
responsesComplete(w, xs) ==
  IF xs = <<>>
  THEN w
  ELSE responsesComplete(
         [unsubscribeFetch(w, Head(xs).key, Head(xs).gen)
            EXCEPT !.inst[Head(xs).key][Head(xs).gen].inflight = FALSE,
                   !.inst[Head(xs).key][Head(xs).gen].flights =
                      IF w.inst[Head(xs).key][Head(xs).gen].inflight
                      THEN @ - 1 ELSE @,
                   !.inst[Head(xs).key][Head(xs).gen].cap = 0],
         Tail(xs))

BatchComplete(b) ==
  /\ batch.events[b].att # <<>>
  /\ Commit(responsesComplete(World, batch.events[b].att))

\* a caller subscribes to the monitor (SubscriberMonitor.ts lines 10-14)
MonSubscribe(n, once) ==
  /\ source # "none"
  /\ mon.subs[n].st # "active"
  /\ CommitMon(monSubscribe([mon |-> mon, log |-> <<>>], n, once))

\* a caller calls unsubscribe() of a subscription they hold; a closed
\* subscription ignores it
MonUnsubscribe(n) ==
  /\ source # "none"
  /\ mon.subs[n].st # "idle"
  /\ CommitMon(IF mon.subs[n].st = "active"
               THEN teardown([mon |-> mon, log |-> <<>>], n)
               ELSE [mon |-> mon, log |-> <<>>])

\* the live source of the monitor emits a value
MonNext(v) ==
  /\ source \in {"live", "replay"} /\ ~mon.done
  /\ CommitMon(monNext([mon |-> [mon EXCEPT !.last = v], log |-> <<>>],
                       v, mon.order))

\* the live source of the monitor completes
MonComplete ==
  /\ source \in {"live", "replay"} /\ ~mon.done
  /\ CommitMon(monComplete([mon |-> [mon EXCEPT !.done = TRUE], log |-> <<>>],
                           mon.order))

\* a clearFromStorageTimer fires (lines 216-218): delete this.store[key].
\* The deleted record is garbage; so is its stream when no consumer keeps it.
TimerFire(k) ==
  /\ timers[k] > 0
  /\ LET g == store[k]
         w1 == [World EXCEPT !.timers[k] = @ - 1, !.store[k] = 0,
                             !.order = SelectSeq(@, LAMBDA x : x # k)]
         w2 == [w1 EXCEPT !.rec[k][g] = FreshRec, !.inst[k][g].since = 0]
     IN Commit(IF g = 0 THEN w1
               ELSE IF keep THEN w2
               ELSE [w2 EXCEPT !.held[k] = {}, !.inst[k][g] = FreshInst])

ParamLists(P) ==
  {<<>>} \cup {<<p>> : p \in P} \cup {<<p, q>> : p \in P, q \in P}

\* the steps of a store whose callers use the params P
NextOver(P) ==
  \/ \E p \in P, force \in BOOLEAN, oc \in Outcomes : GetStore(p, force, oc)
  \/ \E ps \in ParamLists(P), force \in BOOLEAN, ocs \in [Keys -> Outcomes] :
       GetStores(ps, force, ocs)
  \/ \E p \in P, v \in Vals : UpdateStoreValue(p, v)
  \/ \E ocs \in [Keys -> Outcomes] : ExpireAll(ocs)
  \/ \E S \in SUBSET P, ocs \in [Keys -> Outcomes] : ExpireWhere(S, ocs)
  \/ \E p \in P, g \in Gens, oc \in Outcomes : Subscribe(getKey(p), g, oc)
  \/ \E p \in P, g \in Gens, tm \in BOOLEAN : Unsubscribe(getKey(p), g, tm)
  \/ \E p \in P, g \in Gens, v \in Vals : FetchNext(getKey(p), g, v)
  \/ \E p \in P, g \in Gens : FetchComplete(getKey(p), g)
  \/ \E p \in P, g \in Gens, e \in Errs, tm \in BOOLEAN :
       FetchError(getKey(p), g, e, tm)
  \/ \E p \in P : TimerFire(getKey(p))

Next == NextOver({"p1"})

Spec == Init /\ [][Next]_vars

SpecStale == InitStale /\ [][Next]_vars

\* the steps of a store without delete time whose callers get the keys one
\* at a time
NextPair ==
  \/ \E p \in Params, force \in BOOLEAN, oc \in Outcomes : GetStore(p, force, oc)
  \/ \E p \in Params, v \in Vals : UpdateStoreValue(p, v)
  \/ \E ocs \in [Keys -> Outcomes] : ExpireAll(ocs)
  \/ \E S \in SUBSET Params, ocs \in [Keys -> Outcomes] : ExpireWhere(S, ocs)
  \/ \E k \in Keys, g \in Gens, oc \in Outcomes : Subscribe(k, g, oc)
  \/ \E k \in Keys, g \in Gens : Unsubscribe(k, g, FALSE)
  \/ \E k \in Keys, g \in Gens, v \in Vals : FetchNext(k, g, v)
  \/ \E k \in Keys, g \in Gens : FetchComplete(k, g)
  \/ \E k \in Keys, g \in Gens, e \in Errs : FetchError(k, g, e, FALSE)

SpecPair == InitPair /\ [][NextPair]_vars

\* Runs of a store without delete time whose consumers read two keys
\* through getStores; one value and an asynchronous fetcher, so that no
\* stream fails, whose fetches fail for p1 only.
InitMany ==
  /\ ttl = FALSE /\ vals = {"v1"} /\ sync = FALSE
  /\ keep = FALSE /\ combine = TRUE /\ batching = FALSE /\ source = "none"
  /\ Built

NextMany ==
  \/ \E ps \in ParamLists(Params), force \in BOOLEAN,
        ocs \in [Keys -> RunOutcomes] : GetStores(ps, force, ocs)
  \/ \E ocs \in [Keys -> RunOutcomes] : SubscribeMany(ocs)
  \/ UnsubscribeMany
  \/ \E ocs \in [Keys -> RunOutcomes] : ExpireAll(ocs)
  \/ \E k \in Keys, g \in Gens, v \in vals : FetchNext(k, g, v)
  \/ \E k \in Keys, g \in Gens : FetchComplete(k, g)
  \/ \E g \in Gens, e \in Errs : FetchError(getKey("p1"), g, e, FALSE)

SpecMany == InitMany /\ [][NextMany]_vars

\* Runs of an RxBatchingStore (no delete time: line 47 passes none) whose
\* callers use two keys; one value, and batches that fail for p1 only.
InitBatch ==
  /\ ttl = FALSE /\ vals = {"v1"} /\ sync = FALSE
  /\ keep = FALSE /\ combine = FALSE /\ batching = TRUE /\ source = "none"
  /\ Built

\* what the stream of batchFetchingFunction emits while it is subscribed
Firsts ==
  {[has |-> FALSE, d |-> [k \in Keys |-> NoAnswer]]}
    \cup {[has |-> TRUE, d |-> d] : d \in Dicts}

NextBatch ==
  \/ \E p \in Params, force \in BOOLEAN : GetStore(p, force, Async)
  \/ \E ocs \in [Keys -> {Async}] : ExpireAll(ocs)
  \/ \E k \in Keys, g \in Gens : Subscribe(k, g, Async)
  \/ \E k \in Keys, g \in Gens : Unsubscribe(k, g, FALSE)
  \/ \E first \in Firsts : Tick(first)
  \/ \E b \in Batches, d \in Dicts : BatchNext(b, d)
  \/ \E b \in Batches : BatchComplete(b)

SpecBatch == InitBatch /\ [][NextBatch]_vars

\* Runs of a SubscriberMonitor built around a source of its own: a live
\* one, a live one that replays, or one that has completed.
InitMonitor ==
  /\ ttl = FALSE /\ vals = {"v1"} /\ sync = FALSE
  /\ keep = FALSE /\ combine = FALSE /\ batching = FALSE
  /\ source \in {"live", "replay", "completed"}
  /\ Built

NextMonitor ==
  \/ \E n \in Ids, once \in BOOLEAN : MonSubscribe(n, once)
  \/ \E n \in Ids : MonUnsubscribe(n)
  \/ \E v \in {"v1", "v2"} : MonNext(v)
  \/ MonComplete

SpecMonitor == InitMonitor /\ [][NextMonitor]_vars

\* Runs of a store with a delete time whose callers pass an extra, or
\* none, with getStore; one key, one value and an asynchronous fetcher.
InitExtra ==
  /\ ttl = TRUE /\ vals = {"v1"} /\ sync = FALSE
  /\ keep = FALSE /\ combine = FALSE /\ batching = FALSE /\ source = "none"
  /\ Built

NextExtra ==
  \/ \E force \in BOOLEAN, x \in Extras \cup {Undef} :
       GetStoreExtra("p1", force, x, Async)
  \/ UpdateStoreValue("p1", "v1")
  \/ \E ocs \in [Keys -> {Async}] : ExpireAll(ocs)
  \/ \E g \in Gens : Subscribe("k1", g, Async)
  \/ \E g \in Gens, tm \in BOOLEAN : Unsubscribe("k1", g, tm)
  \/ \E g \in Gens : FetchNext("k1", g, "v1")
  \/ \E g \in Gens : FetchComplete("k1", g)
  \/ \E g \in Gens, e \in Errs, tm \in BOOLEAN : FetchError("k1", g, e, tm)
  \/ TimerFire("k1")

SpecExtra == InitExtra /\ [][NextExtra]_vars

\* Runs of a batching store whose callers pass an extra, or none, with
\* getStore.
NextBatchExtra ==
  \/ \E p \in Params, x \in Extras \cup {Undef} :
       GetStoreExtra(p, FALSE, x, Async)
  \/ \E ocs \in [Keys -> {Async}] : ExpireAll(ocs)
  \/ \E k \in Keys, g \in Gens : Subscribe(k, g, Async)
  \/ \E first \in Firsts : Tick(first)
  \/ \E b \in Batches : BatchComplete(b)

SpecBatchExtra == InitBatch /\ [][NextBatchExtra]_vars

\* Runs of a batching store whose callers also set local values
\* (updateStoreValue is inherited from RxStore).
NextLocal ==
  \/ \E p \in Params, force \in BOOLEAN : GetStore(p, force, Async)
  \/ \E p \in Params : UpdateStoreValue(p, "v1")
  \/ \E k \in Keys, g \in Gens : Subscribe(k, g, Async)
  \/ \E k \in Keys, g \in Gens : Unsubscribe(k, g, FALSE)
  \/ \E first \in Firsts : Tick(first)
  \/ \E b \in Batches, d \in Dicts : BatchNext(b, d)
  \/ \E b \in Batches : BatchComplete(b)

SpecLocal == InitBatch /\ [][NextLocal]_vars

\* ---------------------------------------------------------------- claims
\* C1: while the entry of a key stays in the store, the key keeps its stream
\* instance: every get of the key, forced or not, in any interleaving with
\* the other operations, hands out the instance the first get handed out.
C1_SameInstance ==
  [][\A k \in Keys :
       store[k] # 0 =>
         /\ store'[k] \in {store[k], 0}
         /\ \A g \in held'[k] \ held[k] : g = store[k] /\ store'[k] = g]_vars

\* a non-forced get of an entry with two subscribers and a failed fetch has
\* just made the one stream instance of the key fetch again
C1_Witness ==
  /\ store["k1"] = 1 /\ gen["k1"] = 1 /\ held["k1"] = {1}
  /\ inst["k1"][1].live = 2
  /\ inst["k1"][1].since = 2
  /\ fetched["k1"] = 1

\* C2 as stated: gets without force and subscriptions invoke the fetcher
\* at most once for a key until the entry is invalidated.
C2_Original == \A k \in Keys : \A g \in Gens : inst[k][g].since <= 1

\* C2, amended: gets without force and subscriptions invoke the fetcher at
\* most once for the entry of a key since its last invalidation, as long as
\* no fetch of the entry has failed; so after a successful fetch a
\* non-forced get of such an entry invokes no fetch.
C2_FetchOnce ==
  \A k \in Keys :
    LET g == store[k]
    IN g # 0 /\ ~rec[k][g].lastFetchFailed /\ ~inst[k][g].errored
         => inst[k][g].since <= 1

\* two subscribers share the value of the one fetch of an entry
C2_Witness ==
  /\ store["k1"] = 1 /\ held["k1"] = {1}
  /\ inst["k1"][1].live = 2
  /\ inst["k1"][1].since = 1
  /\ inst["k1"][1].last = ValueRaw("v1")
  /\ ~rec["k1"][1].lastFetchFailed /\ ~inst["k1"][1].errored

\* C3: a get of a key without entry builds the entry and invokes no fetch;
\* while no stream of the key has been subscribed, the fetcher is invoked
\* for the key only by a step in which a consumer subscribes.
C3_LazyFetch ==
  [][\A k \in Keys :
       /\ store[k] = 0 /\ store'[k] # 0
            => fetched'[k] = 0 /\ ~inst'[k][store'[k]].started
       /\ fetched'[k] > 0 /\ (\A g \in Gens : ~inst[k][g].started)
            => \E g \in Gens, oc \in Outcomes : Subscribe(k, g, oc)]_vars

\* the entry was built by a get and, unsubscribed, has not fetched
C3_Witness ==
  /\ store["k1"] = 1 /\ held["k1"] = {1}
  /\ ~inst["k1"][1].started /\ ~inst["k1"][1].errored
  /\ inst["k1"][1].since = 0
  /\ fetched["k1"] = 0

\* C4 as stated: in every state of the entry, never subscribed included, a
\* forced get causes exactly one invocation of the fetcher for the key.
C4_Original ==
  [][\A p \in Params, oc \in Outcomes :
       GetStore(p, TRUE, oc) => fetched'[getKey(p)] = 1]_vars

\* C4, amended: a forced get of an entry whose stream is running (subscribed
\* before and not ended by an error; loading, ready or errored) causes
\* exactly one invocation of the fetcher for the key; a forced get of an
\* entry whose stream is not running causes none.
\* (stated as: a step with another number of invocations is no forced get)
C4_ForceFetchesOnce ==
  [][\A p \in Params, oc \in Outcomes :
       fetched'[getKey(p)] # (IF Fetches(getKey(p)) THEN 1 ELSE 0)
         => ~GetStore(p, TRUE, oc)]_vars

\* an invalidation has just made a running stream with two subscribers
\* fetch once more
C4_Witness ==
  /\ store["k1"] = 1
  /\ inst["k1"][1].started /\ inst["k1"][1].live = 2
  /\ inst["k1"][1].since = 1
  /\ inst["k1"][1].last = [loading |-> TRUE, value |-> "v1", error |-> Undef]
  /\ fetched["k1"] = 1

\* C5 as stated: updateStoreValue(k, v) invokes no fetch and, for every
\* value v, the next result of the stream of k is
\* {loading: false, value: v, error: undefined}.
C5_LocalValueEmitted ==
  [][\A p \in Params, v \in Vals :
       UpdateStoreValue(p, v) =>
         LET k == getKey(p)
             g == store'[k]
         IN /\ fetched'[k] = 0
            /\ inst'[k][g].rs = LocalResult(v)
            /\ inst'[k][g].started
                 => emitted' = <<[key |-> k, gen |-> g, res |-> LocalResult(v)]>>]_vars

\* C6 as stated: when a fetch of a key fails, thrown or emitted, the
\* entry's lastFetchFailed is set, and the next get, forced or not, makes
\* the stream fetch again.
C6_FailureFlagged ==
  [][\A k \in Keys :
       LET g == store'[k]
       IN g # 0 =>
            /\ inst'[k][g].errored \/ inst'[k][g].last.error # Undef
                 => rec'[k][g].lastFetchFailed
            /\ \A oc \in Outcomes :
                 /\ store[k] = g
                 /\ inst[k][g].errored \/ rec[k][g].lastFetchFailed
                 /\ GetStore(paramsOf(k), FALSE, oc)
                 => fetched'[k] = 1]_vars

\* C7 as stated: no failure of the fetcher ends a stream with an error.
C7_NoStreamError == \A k \in Keys : \A g \in Gens : ~inst[k][g].errored

\* C8 as stated: when a subscriber attaches to the stream of the entry of
\* a key, the pending removal is cancelled: no timer of the key is left.
C8_SubscribeCancels ==
  [][\A k \in Keys : \A g \in Gens, oc \in Outcomes :
       /\ Subscribe(k, g, oc)
       /\ store[k] = g
       /\ inst'[k][g].live = inst[k][g].live + 1
       => timers'[k] = 0]_vars

\* C9 as stated: an entry whose stream has a live subscriber is never
\* removed from the store.
C9_LiveNotEvicted ==
  [][\A k \in Keys :
       store[k] # 0 /\ store'[k] = 0 => inst[k][store[k]].live = 0]_vars

\* C10: without a delete time no step removes an entry: the keys of the
\* store only grow, and an entry is never replaced.
C10_NeverRemoved ==
  [][~ttl => /\ \A k \in Keys : store[k] # 0 => store'[k] = store[k]
             /\ \A n \in 1..Len(order) : order'[n] = order[n]]_vars

\* without a delete time, the entry is in the store after its only
\* subscriber has unsubscribed
C10_Witness ==
  /\ ~ttl
  /\ store["k1"] = 1 /\ order = <<"k1">>
  /\ inst["k1"][1].started /\ inst["k1"][1].live = 0
  /\ inst["k1"][1].last = ValueRaw("v1")

\* C11: expireWhere(predicate) invalidates exactly the entries whose params
\* satisfy the predicate: each of them gets the invalidation and, when its
\* stream has a subscriber, fetches once; every other entry is left as it
\* was, with no fetch and no emission.
C11_ExpireWhereExact ==
  [][\A S \in SUBSET Params, ocs \in [Keys -> RunOutcomes] :
       ExpireWhere(S, ocs) =>
         \A k \in Keys :
           LET g == store[k]
           IN /\ g # 0 /\ paramsOf(k) \in S
                   => /\ inst'[k][g].rs = InvalidateRS
                      /\ inst[k][g].live > 0 => fetched'[k] = 1
              /\ paramsOf(k) \notin S
                   => /\ inst'[k] = inst[k] /\ rec'[k] = rec[k]
                      /\ fetched'[k] = 0
                      /\ \A n \in 1..Len(emitted') : emitted'[n].key # k]_vars

\* both keys had a value and a subscriber; an invalidation of k1 alone has
\* made k1 fetch and left k2 with its value
C11_Witness ==
  /\ store["k1"] = 1 /\ store["k2"] = 1
  /\ inst["k1"][1].live = 1 /\ inst["k2"][1].live = 1
  /\ inst["k1"][1].last = [loading |-> TRUE, value |-> "v1", error |-> Undef]
  /\ inst["k2"][1].last = ValueRaw("v1")
  /\ fetched = [k \in Keys |-> IF k = "k1" THEN 1 ELSE 0]

\* C12 as stated: expireAll and expireWhere invoke no fetch for an entry
\* that has no live subscriber; it is fetched again at the next subscription.
C12_ExpireIdleNoFetch ==
  [][\A S \in SUBSET Params, ocs \in [Keys -> RunOutcomes] :
       ExpireAll(ocs) \/ ExpireWhere(S, ocs) =>
         \A k \in Keys :
           store[k] # 0 /\ inst[k][store[k]].live = 0 => fetched'[k] = 0]_vars

\* C13: getStores([]) yields the single result {loading: false, value: [],
\* error: []} to whoever subscribes, builds no entry and calls no fetcher.
C13_EmptyList ==
  [][\A force \in BOOLEAN, ocs \in [Keys -> RunOutcomes] :
       /\ GetStores(<<>>, force, ocs)
            => /\ store' = store /\ gen' = gen /\ inst' = inst
               /\ \A k \in Keys : fetched'[k] = 0
       /\ many.list = <<>> /\ SubscribeMany(ocs)
            => /\ manyOut' = <<[res |-> EmptyMany, latest |-> <<>>]>>
               /\ ~many'.on
               /\ store' = store /\ gen' = gen /\ inst' = inst
               /\ \A k \in Keys : fetched'[k] = 0]_vars

\* the stream of getStores([]) was subscribed while an entry's fetch ran
C13_Witness ==
  /\ many.has /\ many.list = <<>>
  /\ manyOut = <<[res |-> EmptyMany, latest |-> <<>>]>>
  /\ \E k \in Keys : store[k] # 0 /\ inst[k][store[k]].inflight

\* C14: in every result the stream of getStores emits for a non-empty
\* list, loading is true exactly when the latest result of at least one
\* requested key has loading = true.
C14_AnyLoading ==
  \A n \in 1..Len(manyOut) :
    manyOut[n].latest # <<>> =>
      (manyOut[n].res.loading
         <=> \E j \in 1..Len(manyOut[n].latest) : manyOut[n].latest[j].loading)

\* the combined stream of two different keys reported loading = false after
\* it had reported loading = true, one key ending with an error
C14_Witness ==
  /\ many.on /\ Len(many.list) = 2 /\ many.list[1].key # many.list[2].key
  /\ Len(manyOut) = 1 /\ ~manyOut[1].res.loading
  /\ Len(manyOut[1].res.value) = 1 /\ Len(manyOut[1].res.error) = 1

\* C15: whenever a requested key updates and the combined loading flag or
\* the combined contents differ from the last emission, the stream of
\* getStores emits: what the subscriber saw last is the combination of the
\* keys' latest results.
C15_EmitsOnChange ==
  many.on /\ (\A j \in 1..Len(many.slot) : many.slot[j] # NoResult)
    => many.out = Combined(many.slot)
\* C16: the keys requested within one window of bufferTime cause exactly
\* one call of batchFetchingFunction when the window closes, and none
\* before; its argument holds every requested key once, in the order of
\* the first requests, and the key of every fetch that waits.
C16_OneCallPerWindow ==
  [][/\ calls' # <<>>
          => /\ Len(calls') = 1
             /\ batch.waiters # <<>>
             /\ LET c == calls'[1]
                    at(k) == CHOOSE n \in 1..Len(batch.buffer) :
                               /\ batch.buffer[n] = k
                               /\ \A m \in 1..(n - 1) :
                                    batch.buffer[m].request # k.request
                IN /\ Range(c) = Range(batch.buffer)
                   /\ \A x \in Range(batch.waiters) :
                        x.key \in Range(hashes(c))
                   /\ \A i, j \in 1..Len(c) : i < j => at(c[i]) < at(c[j])
     /\ calls' = <<>> => \A first \in Firsts : ~Tick(first)]_vars

\* a window in which both keys were requested closed with one call
C16_Witness ==
  /\ calls = <<<<[request |-> "k2"], [request |-> "k1"]>>>>
  /\ batch.events[1].att = <<[key |-> "k2", gen |-> 1], [key |-> "k1", gen |-> 1]>>
  /\ fetched = [k \in Keys |-> 0]
\* C17: expireAll() requests a refetch only for the keys that have a live
\* subscriber, so that the collective fetch of the window it fills holds
\* no key whose only subscriber has unsubscribed.
C17_ExpireAllLiveOnly ==
  [][\A ocs \in [Keys -> {Async}] :
       ExpireAll(ocs) =>
         \A k \in Keys :
           /\ store[k] # 0 /\ inst[k][store[k]].live = 0
           /\ k \notin Range(hashes(batch.buffer))
           => k \notin Range(hashes(batch'.buffer))]_vars
C19_Original ==
  [][emitted' # <<>> =>
       \A d \in Dicts, b \in Batches :
         \/ \A x \in Range(batch.events[b].att) :
              d[x.key].kind = "none"
                => inst'[x.key][x.gen].last = ValueRaw(Undef)
         \/ ~BatchNext(b, d)]_vars

\* C19: a key for which the result list of its batch holds no element
\* emits a result with loading = false and no error instead of staying
\* loading; its value is undefined unless the result the same fetch
\* delivered immediately before held a response, which is then repeated.
C19_AbsentEmits ==
  [][LET Absent(xs, d) ==
           \A x \in xs :
             d[x.key].kind = "none"
               => LET i == inst'[x.key][x.gen]
                  IN /\ i.last = [loading |-> FALSE,
                                  value |-> inst[x.key][x.gen].prev,
                                  error |-> Undef]
                     /\ \E n \in 1..Len(emitted') :
                          emitted'[n] = [key |-> x.key, gen |-> x.gen,
                                         res |-> i.last]
                     /\ i.inflight
     IN emitted' # <<>> =>
          \A d \in Dicts :
            /\ \A b \in Batches :
                 \/ Absent(Range(batch.events[b].att), d)
                 \/ ~BatchNext(b, d)
            /\ \/ /\ Absent(Range(batch.waiters), d)
                  /\ \A x \in Range(batch.waiters) :
                       d[x.key].kind = "none"
                         => inst'[x.key][x.gen].last.value = Undef
               \/ ~Tick([has |-> TRUE, d |-> d])]_vars

\* the fetch of k1 received a result list without an element for k1 and
\* the entry, loading until then, emitted {loading: false, value: undefined}
C19_Witness ==
  /\ emitted = <<[key |-> "k1", gen |-> 1, res |-> ValueRaw(Undef)]>>
  /\ calls = <<>>
  /\ inst["k1"][1].inflight /\ inst["k1"][1].live > 0

\* C20: every fetch of a window receives what the stream of
\* batchFetchingFunction emitted before it attached, not only the first
\* to attach, and every batch the stream emits later reaches every fetch
\* still attached, once each, in the order they attached.
C20_AllWaitersServed ==
  [][LET Served(xs, d) ==
           /\ Len(emitted') = Len(xs)
           /\ \A n \in 1..Len(xs) :
                LET x == xs[n]
                    r == emitted'[n].res
                IN /\ emitted'[n].key = x.key /\ emitted'[n].gen = x.gen
                   /\ ~r.loading
                   /\ d[x.key].kind = "value" => r.value = d[x.key].v
                   /\ d[x.key].kind = "error" => r.error = d[x.key].v
                   /\ d[x.key].kind # "error" => r.error = Undef
     IN \A d \in Dicts :
          /\ \A b \in Batches :
               \/ Served(batch.events[b].att, d)
               \/ ~BatchNext(b, d)
          /\ \/ Served(batch.waiters, d)
             \/ ~Tick([has |-> TRUE, d |-> d])]_vars

\* the stream of a window of two fetches emitted while the first attached,
\* and both entries emitted their responses
C20_Witness ==
  /\ calls = <<<<[request |-> "k1"], [request |-> "k2"]>>>>
  /\ emitted = <<[key |-> "k1", gen |-> 1, res |-> ValueRaw("v1")],
                 [key |-> "k2", gen |-> 1, res |-> ValueRaw("v1")]>>
  /\ batch.events[1].att = <<[key |-> "k1", gen |-> 1], [key |-> "k2", gen |-> 1]>>
\* C21: while the source of a SubscriberMonitor is live its counter is the
\* number of active subscriptions; a subscribe calls onSubscribe with the
\* counter after the increment and an unsubscribe of an active subscription
\* calls onUnsubscribe with the counter after the decrement.
C21_CounterExact ==
  [][~mon.done /\ source \in {"live", "replay"} =>
       /\ mon'.counter = Cardinality({n \in Ids : mon'.subs[n].st = "active"})
       /\ \A n \in Ids, once \in BOOLEAN :
            MonSubscribe(n, once)
              => /\ Len(monLog') >= 1
                 /\ monLog'[1] = [cb |-> "onSubscribe", n |-> mon.counter + 1]
       /\ \A n \in Ids :
            mon.subs[n].st = "active" /\ MonUnsubscribe(n)
              => /\ monLog' = <<[cb |-> "onUnsubscribe", n |-> mon.counter - 1]>>
                 /\ mon'.subs[n].st = "closed"]_vars

\* of two subscriptions to a live source one was unsubscribed
C21_Witness ==
  /\ source = "live" /\ ~mon.done
  /\ mon.counter = 1
  /\ monLog = <<[cb |-> "onUnsubscribe", n |-> 1]>>
  /\ \E n \in Ids : mon.subs[n].st = "closed"

\* C22: every subscribe to a SubscriberMonitor whose source has completed
\* calls onSubscribe(1) and then onUnsubscribe(0) in the same step and
\* leaves the counter at 0.
C22_CompletedSource ==
  [][mon.done =>
       \A n \in Ids, once \in BOOLEAN :
         MonSubscribe(n, once)
           => /\ monLog' = <<[cb |-> "onSubscribe", n |-> 1],
                             [cb |-> "onUnsubscribe", n |-> 0]>>
              /\ mon'.counter = 0
              /\ mon'.subs[n].st = "closed"]_vars

\* a second subscription to a source that had completed before the first
C22_Witness ==
  /\ source = "completed"
  /\ monLog = <<[cb |-> "onSubscribe", n |-> 1],
                [cb |-> "onUnsubscribe", n |-> 0]>>
  /\ mon.counter = 0
  /\ Cardinality({n \in Ids : mon.subs[n].st = "closed"}) >= 2
\* C23: an entry that shows a value v keeps showing it in every loading
\* result, whatever the number of invalidations before the refetch
\* resolves.
C23_StaleValueKept ==
  [][\A k \in Keys, g \in Gens :
       /\ inst[k][g].last # NoResult /\ Truthy(inst[k][g].last.value)
       /\ inst'[k][g].last.loading
       => inst'[k][g].last.value = inst[k][g].last.value]_vars

\* C24: every value the fetch stream emits is delivered as
\* {loading: false, value} and becomes the result a later subscriber
\* receives first.
C24_EveryValueDelivered ==
  [][\A k \in Keys, g \in Gens, v \in Vals :
       FetchNext(k, g, v)
         => /\ emitted' = <<[key |-> k, gen |-> g, res |-> ValueRaw(v)]>>
            /\ inst'[k][g].last = ValueRaw(v)]_vars

\* C25: the result of a failed fetch carries the value the entry showed
\* before.
C25_ErrorKeepsValue ==
  [][\A k \in Keys, g \in Gens :
       /\ inst[k][g].last # NoResult /\ Truthy(inst[k][g].last.value)
       /\ inst'[k][g].last # NoResult /\ inst'[k][g].last.error # Undef
       /\ inst[k][g].last.error = Undef
       => inst'[k][g].last.value = inst[k][g].last.value]_vars

\* C26: no result of any entry is both loading and errored: a result with
\* loading = true has no error, whatever fetch outcomes, invalidations and
\* local values came before.
C26_LoadingHasNoError ==
  /\ \A n \in 1..Len(emitted) :
       emitted[n].res.loading => emitted[n].res.error = Undef
  /\ \A k \in Keys, g \in Gens :
       inst[k][g].last # NoResult /\ inst[k][g].last.loading
         => inst[k][g].last.error = Undef

\* a refetch that fails at once: the loading result and the error reach
\* the observer in one step, the loading one without an error
C26_Witness ==
  /\ fetched["k1"] = 2
  /\ Len(emitted) >= 2
  /\ \E n \in 1..Len(emitted) :
       emitted[n].res.loading /\ emitted[n].res.error = Undef
  /\ emitted[Len(emitted)].res.error = "e1"
  /\ ~emitted[Len(emitted)].res.loading

\* C27: an entry never has more than one fetch in flight: the pipeline of
\* an entry is subscribed to at most one stream returned by the fetcher,
\* whatever the number of subscribers and invalidations.
C27_OneFetchInFlight ==
  \A k \in Keys, g \in Gens : inst[k][g].flights <= 1

\* a second fetch of an entry is in flight, with two subscribers, after
\* the first one was cancelled by an invalidation
C27_Witness ==
  /\ fetched["k1"] = 2
  /\ inst["k1"][1].flights = 1 /\ inst["k1"][1].inflight
  /\ inst["k1"][1].live = 2

\* C28 as stated: when an observer of an entry unsubscribes during a
\* fetch, the fetch stays in flight if other observers remain and is torn
\* down if the observer count has reached zero.
C28_TeardownAtZero ==
  [][\A k \in Keys, g \in Gens, tm \in BOOLEAN :
       inst[k][g].inflight /\ Unsubscribe(k, g, tm)
         => (inst'[k][g].flights = 1 <=> inst'[k][g].live > 0)]_vars

\* C29: once the delete timer of a key has fired, the next getStore of the
\* key builds a new entry: a new stream that has nothing to replay and a
\* record with lastFetchFailed = false, without calling the fetcher; the
\* first subscription to the new stream calls the fetcher and shows a
\* loading result without the value cached before.
C29_FreshAfterEviction ==
  [][/\ \A p \in Params, force \in BOOLEAN :
          LET k == getKey(p)
          IN store[k] = 0 /\ gen[k] > 0 /\ GetStore(p, force, Async)
               => /\ store'[k] = gen[k] + 1
                  /\ store'[k] \in held'[k]
                  /\ inst'[k][store'[k]] = FreshInst
                  /\ rec'[k][store'[k]] = FreshRec
                  /\ fetched'[k] = 0
                  /\ \A n \in 1..Len(emitted') : emitted'[n].key # k
     /\ \A k \in Keys :
          LET g == store[k]
          IN /\ g > 1 /\ inst[k][g] = FreshInst
             /\ \E oc \in Outcomes : Subscribe(k, g, oc)
             => /\ fetched'[k] = 1
                /\ Len(emitted') >= 1
                /\ emitted'[1] = [key |-> k, gen |-> g, res |-> LoadingRaw]
                /\ \A n \in 1..Len(emitted') : emitted'[n].gen = g]_vars

\* the stream built before the deletion still replays the value, the one
\* built after it is fetching
C29_Witness ==
  /\ store["k1"] = 2
  /\ inst["k1"][1].last = ValueRaw("v1")
  /\ inst["k1"][2].inflight /\ inst["k1"][2].last = LoadingRaw
  /\ ~rec["k1"][2].lastFetchFailed

\* C30 as stated: a delete timer is pending for a key only if a delete
\* time is configured and the stored entry of the key has no live
\* observer, and at most one timer is pending per key.
C30_TimerOnlyIdle ==
  \A k \in Keys :
    /\ timers[k] <= 1
    /\ timers[k] > 0
         => /\ ttl
            /\ store[k] # 0 => inst[k][store[k]].live = 0

\* C33: batchFetchingFunction is never called with an empty request list:
\* an interval of bufferTime elapses only with a request in the buffer, and
\* every call made holds at least one request.
C33_NoEmptyWindow ==
  [][/\ \A n \in 1..Len(calls') : calls'[n] # <<>>
     /\ batch.buffer = <<>> => \A first \in Firsts : ~Tick(first)]_vars

\* a window of one request was fetched and bufferTime is unsubscribed
C33_Witness ==
  /\ calls = <<<<[request |-> "k1"]>>>>
  /\ batch.buffer = <<>> /\ batch.waiters = <<>>
  /\ batch.events[1].att = <<[key |-> "k1", gen |-> 1]>>

\* C32: batchFetchingFunction is called only when an interval of
\* bufferTime elapses, never by a subscription or an invalidation; the
\* window that closes serves every per-key fetch waiting for it, which
\* leaves `requests`, and a per-key fetch served by an earlier window stays
\* with that window when a later one holds the same hash.
C32_ServedByFirstWindow ==
  [][calls' # <<>>
       => /\ \E first \in Firsts : Tick(first)
          /\ batch.waiters # <<>> /\ batch'.waiters = <<>>
          /\ \A x \in Range(batch.waiters) :
               x.key \in Range(hashes(calls'[1]))
          /\ \A b \in Batches :
               batch.events[b].att # <<>>
                 => batch'.events[b].att = batch.events[b].att]_vars

\* the fetch of k1 stays with the first window when the second window
\* closes for k2
C32_Witness ==
  /\ batch.events[1].att = <<[key |-> "k1", gen |-> 1]>>
  /\ batch.events[2].att = <<[key |-> "k2", gen |-> 1]>>
  /\ calls = <<<<[request |-> "k2"]>>>>
  /\ batch.waiters = <<>>

\* C39: when the last per-key fetch waiting for the window is cancelled
\* before the interval elapses, the buffered requests are dropped and no
\* window closes for them: batchFetchingFunction is not called, and the
\* next request starts a buffer that holds nothing but itself.
C39_CancelledWindowDiscarded ==
  [][/\ batch.waiters # <<>> /\ batch'.waiters = <<>> /\ calls' = <<>>
          => batch'.buffer = <<>>
     /\ batch.waiters = <<>>
          => /\ batch.buffer = <<>>
             /\ \A first \in Firsts : ~Tick(first)
             /\ Len(batch'.buffer) = Len(batch'.waiters)
             /\ \A n \in 1..Len(batch'.buffer) :
                  batch'.buffer[n].request = batch'.waiters[n].key
     /\ \A p \in Params :
          /\ batch.waiters = <<[key |-> getKey(p), gen |-> store[getKey(p)]]>>
          /\ GetStore(p, TRUE, Async)
          => hashes(batch'.buffer) = <<getKey(p)>>]_vars

\* updateStoreValue has just cancelled the fetch of k2, the last one
\* waiting, after the one of k1: nothing is buffered, nobody waits and no
\* window was fetched
C39_Witness ==
  /\ emitted = <<[key |-> "k2", gen |-> 1, res |-> LocalResult("v1")]>>
  /\ inst["k1"][1].rs = LocalResult("v1") /\ inst["k1"][1].since = 1
  /\ inst["k2"][1].since = 1
  /\ ~inst["k1"][1].inflight /\ ~inst["k2"][1].inflight
  /\ batch = NoBatch
  /\ calls = <<>>

\* C34 as stated: lastFetchFailed of an entry, once true, stays true while
\* the entry is stored, and every getStore of the key from then on sets
\* updateValueRS to undefined and calls the fetcher.
C34_FlagMonotone ==
  [][/\ \A k \in Keys, g \in Gens :
          rec[k][g].lastFetchFailed /\ store[k] = g /\ store'[k] = g
            => rec'[k][g].lastFetchFailed
     /\ \A p \in Params, oc \in Outcomes :
          LET k == getKey(p)
              g == store[k]
          IN g # 0 /\ rec[k][g].lastFetchFailed /\ GetStore(p, FALSE, oc)
               => /\ inst'[k][g].rs = InvalidateRS
                  /\ fetched'[k] = 1]_vars

\* C36: a local value or an invalidation that reaches an entry during a
\* fetch unsubscribes the stream of that fetch before anything else
\* happens: after a local value no fetch stream is subscribed and the
\* local value is the result shown; after an invalidation the only fetch
\* stream subscribed is the one of the fetcher call just made.  A fetch
\* stream emits into the entry only while it is the one subscribed.
C36_SupersededSilent ==
  [][\A k \in Keys, g \in Gens :
       /\ inst[k][g].inflight /\ store[k] = g
            => /\ \A p \in Params, v \in Vals :
                    getKey(p) = k /\ UpdateStoreValue(p, v)
                      => /\ inst'[k][g].flights = 0 /\ ~inst'[k][g].inflight
                         /\ Len(emitted') = 1
                         /\ emitted'[1].res = inst'[k][g].last
                         /\ ~inst'[k][g].last.loading
                         /\ inst'[k][g].last.error = Undef
                         /\ Truthy(v) => inst'[k][g].last.value = v
                         /\ fetched'[k] = 0
               /\ fetched'[k] >= 1
                    => /\ inst'[k][g].flights <= 1
                       /\ inst'[k][g].flights = 1
                            => inst'[k][g].cap = g /\ inst'[k][g].since >= 1
       /\ inst[k][g].flights = 0
            => /\ \A v \in Vals : ~FetchNext(k, g, v)
               /\ \A e \in Errs, tm \in BOOLEAN : ~FetchError(k, g, e, tm)
               /\ ~FetchComplete(k, g)]_vars

\* updateStoreValue has replaced the fetch of a subscribed entry: the
\* local value is shown and no fetch stream is subscribed
C36_Witness ==
  /\ emitted = <<[key |-> "k1", gen |-> 1, res |-> LocalResult("v2")]>>
  /\ inst["k1"][1].last = LocalResult("v2")
  /\ inst["k1"][1].rs = LocalResult("v2")
  /\ inst["k1"][1].flights = 0 /\ inst["k1"][1].live = 1
  /\ inst["k1"][1].since = 1

\* C37 as stated: with a delete time, building an entry starts no timer,
\* and an entry whose stream was never subscribed is not deleted.
C37_UnusedNotEvicted ==
  [][\A k \in Keys :
       /\ store[k] = 0 /\ store'[k] # 0 => timers'[k] = timers[k]
       /\ store[k] # 0 /\ TimerFire(k)
            => LET i == inst[k][store[k]]
               IN i.started \/ i.errored \/ i.live > 0]_vars

\* C38 as stated: subscribing to or unsubscribing from a stream handed out
\* before its entry was deleted leaves the entry now stored under the key
\* alone: its timer is neither started nor cleared and it stays stored.
C38_OldInstanceIndependent ==
  [][\A k \in Keys, g \in Gens :
       /\ store[k] # 0 /\ g # store[k]
       /\ \/ \E oc \in Outcomes : Subscribe(k, g, oc)
          \/ \E tm \in BOOLEAN : Unsubscribe(k, g, tm)
       => /\ store'[k] = store[k]
          /\ timers'[k] = timers[k]
          /\ rec'[k][store[k]] = rec[k][store[k]]]_vars

\* C35: the extra the fetcher receives for a key is the one of the call
\* that built the entry: getStore stores its extra when it builds the
\* entry, updateStoreValue builds entries without extra, no later call
\* changes the extra of a stored entry, and every call of the fetcher, by
\* a first subscription or a refetch, receives the extra of the entry.
C35_ExtraFixedAtCreation ==
  [][\A p \in Params :
       LET k == getKey(p)
           g == store[k]
       IN /\ g # 0 /\ store'[k] = g
               => inst'[k][g].extra = inst[k][g].extra
          /\ fetched'[k] >= 1 /\ g # 0 /\ store'[k] = g
               => inst'[k][g].arg = inst[k][g].extra
          /\ g = 0
               => /\ \A force \in BOOLEAN, x \in Extras \cup {Undef} :
                       GetStoreExtra(p, force, x, Async)
                         => inst'[k][store'[k]].extra = x
                  /\ \A v \in Vals :
                       UpdateStoreValue(p, v)
                         => inst'[k][store'[k]].extra = Undef]_vars

\* a step other than a subscription has called the fetcher of an entry
\* built with the extra x1, which received x1
C35_Witness ==
  /\ fetched["k1"] = 1
  /\ inst["k1"][1].live = 0 /\ inst["k1"][1].inflight
  /\ inst["k1"][1].extra = "x1" /\ inst["k1"][1].arg = "x1"

\* C31 as stated: the argument of a call of batchFetchingFunction holds,
\* for every hash buffered in the window and in the order of the first
\* occurrences, the first request buffered with the hash; the request
\* carries the extra getStore was given for the key when it was given one
\* and has no extra field otherwise; and every fetch waiting for the
\* window has its hash in the call.
C31_CallArgument ==
  [][calls' # <<>>
       => LET c == calls'[1]
              buf == batch.buffer
              at(r) == CHOOSE n \in 1..Len(buf) :
                         /\ buf[n].request = r.request
                         /\ \A m \in 1..(n - 1) : buf[m].request # r.request
          IN /\ Range(hashes(c)) = Range(hashes(buf))
             /\ \A i, j \in 1..Len(c) : i < j => at(c[i]) < at(c[j])
             /\ \A i \in 1..Len(c) :
                  LET k == c[i].request
                      extra == inst[k][store[k]].extra
                  IN /\ c[i] = buf[at(c[i])]
                     /\ c[i] = IF extra # Undef
                               THEN [request |-> k, extra |-> extra]
                               ELSE [request |-> k]
             /\ \A x \in Range(batch.waiters) : x.key \in Range(hashes(c))
             /\ batch'.waiters = <<>>]_vars
====
